---- MODULE Spec2Model ----
(***************************************************************************)
(* Model of `cast run` (crates/cast/bin/cmd/run.rs, RunArgs::run): the     *)
(* transaction-replay engine.  One run resolves the target transaction,    *)
(* fetches its block, forks the parent block, builds the block             *)
(* environment, optionally installs bytecode overrides, replays the        *)
(* preceding transactions of the block against the one executor backend    *)
(* and finally executes the target transaction.                            *)
(*                                                                         *)
(* Option<T> values are sets: None is {} and Some(x) is {x}.               *)
(* The provider, the execution backend, the tweak loader and the trace     *)
(* presenter are collaborators outside run.rs: their answers are inputs.   *)
(* A transaction record carries `behav`, what the backend does when the    *)
(* transaction is executed ("ok", "revert", "fatal"); the backend itself   *)
(* is deterministic.                                                       *)
(***************************************************************************)
EXTENDS Integers, Sequences, FiniteSets, TLC

\* ---------------------------------------------------------------- bounds
\* Longest transaction list of a fetched block.
MaxTxs == 3

\* ------------------------------------------------------------- constants
\* foundry_common::SYSTEM_TRANSACTION_TYPE (imported at run.rs:15).
SYSTEM_TRANSACTION_TYPE == 126
\* u64::MAX, the value 0 - 1 wraps to in a build without overflow checks
\* (run.rs:141).  TLC's integers are 32 bits wide: the largest of them stands
\* for the largest u64.
U64_MAX == 2147483647

None == {}
Some(x) == {x}
Unwrap(o) == CHOOSE x \in o : TRUE

\* Block numbers the provider attaches to a mined transaction: any u64, 0
\* included (run.rs:132-135 only rejects a missing number).
BlockNumbers == {0, 1, 2}
\* Numbers of --tweak paths on the command line.
TweakCounts == {0, 2}
\* --evm-version values of the command line (None: not pinned).
EvmVersionArgs == {None, Some("Shanghai")}

\* ------------------------------------------------- transaction records
\* TransactionRecord as the provider returns it.  `hash` is the position
\* of the transaction in its block (hashes are unique in a block).
Tx(h, from, ty, to, bn, behav) ==
    [hash |-> h, from |-> from, transaction_type |-> ty, to |-> to,
     block_number |-> bn, behav |-> behav]

\* The shapes of a transaction: sender, type tag, recipient, behaviour.
TxShapes ==
    {<<"system", Some(2), Some("A"), "ok">>,
     <<"user", Some(SYSTEM_TRANSACTION_TYPE), Some("A"), "ok">>}
    \cup {<<"user", None, Some("A"), b>> : b \in {"ok", "revert", "fatal"}}
    \cup {<<"user", Some(2), None, b>> : b \in {"ok", "revert", "fatal"}}

MkTx(h, s, bn) == Tx(h, s[1], s[2], s[3], bn, s[4])

\* foundry_common::is_known_system_sender
is_known_system_sender(from) == from = "system"

\* A test that forgets the sender, and one that forgets the type tag.
IsSystemTargetNoSender(t) ==
    {ty : ty \in t.transaction_type} = Some(SYSTEM_TRANSACTION_TYPE)
IsSystemTxNoType(t) == is_known_system_sender(t.from)

\* run.rs:123-124: the target is a system transaction.
IsSystemTarget(t) ==
    \/ is_known_system_sender(t.from)
    \/ {ty : ty \in t.transaction_type} = Some(SYSTEM_TRANSACTION_TYPE)

\* run.rs:205-207: a transaction of the block is a system transaction.
IsSystemTx(t) ==
    \/ is_known_system_sender(t.from)
    \/ {ty : ty \in t.transaction_type} = Some(SYSTEM_TRANSACTION_TYPE)

\* ----------------------------------------------------------- environment
\* The environment template get_fork_material returns.
TemplateTx == [caller |-> "template", transact_to |-> None, data |-> 0, behav |-> "ok"]
TemplateBlock ==
    [number |-> 0, timestamp |-> "template", coinbase |-> "template",
     difficulty |-> "template", prevrandao |-> None, basefee |-> "template",
     gas_limit |-> "template"]
TemplateEnv == [block |-> TemplateBlock, tx |-> TemplateTx, spec_id |-> None]

\* Block headers the provider returns for block n.
Header(n, mix, fee, blob) ==
    [number |-> n, timestamp |-> "header", miner |-> "header",
     difficulty |-> "header", mix_hash |-> mix, base_fee_per_gas |-> fee,
     gas_limit |-> "header", excess_blob_gas |-> blob]

\* foundry_evm::utils::configure_tx_env: the transaction fields of env are
\* overwritten with those of tx; the block fields are left alone.
configure_tx_env(e, t) ==
    [e EXCEPT !.tx = [caller |-> t.from, transact_to |-> t.to,
                      data |-> t.hash, behav |-> t.behav]]

\* ------------------------------------------------------ execution backend
\* Executor::commit_tx_with_env: Ok(RawCallResult) with the state change
\* committed (a reverted call is an Ok result with reverted set), or Err on
\* a fatal error with the backend unchanged.
commit_tx_with_env(b, e) ==
    IF e.tx.behav = "fatal"
    THEN [variant |-> "Err", backend |-> b,
          raw |-> [reverted |-> TRUE, logs |-> <<>>, data |-> e.tx.data, on |-> b]]
    ELSE [variant |-> "Ok",
          backend |-> [b EXCEPT !.state = Append(@, <<e.tx.data, e.tx.behav>>)],
          raw |-> [reverted |-> e.tx.behav = "revert",
                   logs |-> IF e.tx.behav = "ok" THEN <<e.tx.data>> ELSE <<>>,
                   data |-> e.tx.data, on |-> b]]

\* Executor::deploy_with_env: Ok(DeployResult) with the contract deployed,
\* Err(EvmError::Execution) on a revert (no contract, backend unchanged),
\* or another EvmError on a fatal error.
deploy_with_env(b, e) ==
    CASE e.tx.behav = "ok" ->
           [variant |-> "Ok",
            backend |-> [b EXCEPT !.state = Append(@, <<e.tx.data, "deployed">>)],
            raw |-> [reverted |-> FALSE, logs |-> <<e.tx.data>>,
                     data |-> e.tx.data, on |-> b]]
      [] e.tx.behav = "revert" ->
           [variant |-> "Execution", backend |-> b,
            raw |-> [reverted |-> TRUE, logs |-> <<>>, data |-> e.tx.data, on |-> b]]
      [] OTHER ->
           [variant |-> "Other", backend |-> b,
            raw |-> [reverted |-> TRUE, logs |-> <<>>, data |-> e.tx.data, on |-> b]]

\* cast::decode::decode_console_logs
decode_console_logs(logs) == [k \in 1..Len(logs) |-> <<"console", logs[k]>>]

\* TraceResult::from(result)
TraceResultFrom(raw) ==
    [success |-> ~raw.reverted, data |-> raw.data, on |-> raw.on, structured |-> FALSE]
\* TraceResult::try_from(EvmError::Execution(e))
TraceResultFromErr(raw) ==
    [success |-> FALSE, data |-> raw.data, on |-> raw.on, structured |-> TRUE]

\* ------------------------------------------------------------------ state
VARIABLES
    args,             \* RunArgs: tx_hash, quick, evm_version, tweak
    pc,               \* position of the run inside RunArgs::run
    tx,               \* Option: the resolved target transaction
    tx_block_number,  \* block number of the target
    block,            \* Option: the fetched block
    fork_block_number,\* Option: config.fork_block_number
    evm_version,      \* Option: the protocol version handed to the executor
    env,              \* the working environment
    backend,          \* Option: executor.backend
    cloned_projects,  \* number of tweak projects loaded so far
    txs,              \* the transaction list the replay loop iterates
    index,            \* position of the replay loop (1-based)
    result,           \* Option: the TraceResult of the target
    console_logs,     \* decoded logs of the target
    err,              \* Option: the error the run returned
    hist              \* history: every install and execution, in order

vars == <<args, pc, tx, tx_block_number, block, fork_block_number, evm_version,
          env, backend, cloned_projects, txs, index, result, console_logs, err,
          hist>>

\* An execution against the backend, as recorded in hist.
ExecEvent(phase, path, idx, e, b, variant) ==
    [op |-> "exec", phase |-> phase, path |-> path, idx |-> idx, env |-> e,
     on |-> b, variant |-> variant]
InstallEvent(b) ==
    [op |-> "install", phase |-> "tweak", path |-> "tweak", idx |-> 0,
     env |-> TemplateEnv, on |-> b, variant |-> "Ok"]

Error(kind, hash, number) == [kind |-> kind, hash |-> hash, number |-> number]

\* `return Err(..)` / `?`: the run ends with the error.
Abort(e) ==
    /\ pc' = "aborted"
    /\ err' = Some(e)

Init ==
    /\ args \in [tx_hash : 0..MaxTxs, quick : BOOLEAN,
                 evm_version : EvmVersionArgs, tweak : TweakCounts]
    /\ pc = "preflight"
    /\ tx = None
    /\ tx_block_number = 0
    /\ block = None
    /\ fork_block_number = None
    /\ evm_version = None
    /\ env = TemplateEnv
    /\ backend = None
    /\ cloned_projects = 0
    /\ txs = <<>>
    /\ index = 0
    /\ result = None
    /\ console_logs = <<>>
    /\ err = None
    /\ hist = <<>>

\* ------------------------------------------------------------ the provider
\* provider.get_transaction_by_hash(h): the records it may answer with.
ProviderTxs(h) ==
    {MkTx(h, s, bn) : s \in TxShapes,
                      bn \in {None} \cup {Some(n) : n \in BlockNumbers}}

\* Headers of block n: one without the optional fields, one with them.
ProviderHeaders(n) ==
    {Header(n, None, None, None),
     Header(n, Some("mix"), Some("fee"), Some("blob"))}

\* The shape of the transactions mined after the target.
LaterShape == <<"user", None, Some("A"), "ok">>

\* The full transaction lists block n may have: the transaction at position
\* k has hash k, the resolved target sits at its own position, any shapes
\* come before it and calls after it.
ProviderTxLists(n, target) ==
    UNION {
      {[k \in 1..len |->
          IF k < target.hash THEN MkTx(k, f[k], Some(n))
          ELSE IF k = target.hash THEN target
          ELSE MkTx(k, LaterShape, Some(n))] :
         f \in [1..(IF len < target.hash THEN len ELSE target.hash - 1)
                  -> TxShapes]}
      : len \in 0..MaxTxs}

\* provider.get_block(n, true): BlockTransactions::Full or ::Hashes.
ProviderBlocks(n, target) ==
    {[header |-> h, transactions |-> [variant |-> "Full", items |-> l]] :
        h \in ProviderHeaders(n), l \in ProviderTxLists(n, target)}
    \cup
    {[header |-> h,
      transactions |-> [variant |-> "Hashes", items |-> [k \in 1..len |-> k]]] :
        h \in ProviderHeaders(n), len \in 0..MaxTxs}

\* ---------------------------------------------------------------- actions
\* run.rs:102-114: the configuration is read and the provider is built
\* before anything is looked up.
Preflight ==
    /\ pc = "preflight"
    /\ \/ /\ pc' = "panicked"             \* find_project_root_path(None).unwrap()
          /\ UNCHANGED err
       \/ Abort(Error("PreflightError", None, None))   \* extract::<EvmOpts>()?
       \/ Abort(Error("PreflightError", None, None))   \* Config::try_from(..)?
       \/ Abort(Error("PreflightError", None, None))   \* get_rpc_url..()?
       \/ Abort(Error("PreflightError", None, None))   \* ProviderBuilder build()?
       \/ /\ pc' = "resolve"
          /\ UNCHANGED err
    /\ UNCHANGED <<args, tx, tx_block_number, block, fork_block_number,
                   evm_version, env, backend, cloned_projects, txs, index,
                   result, console_logs, hist>>

\* run.rs:116-135: the target resolver.
Resolve ==
    /\ pc = "resolve"
    /\ \/ /\ args.tx_hash = 0                      \* "invalid tx hash"
          /\ Abort(Error("InvalidHash", None, None))
          /\ UNCHANGED <<tx, tx_block_number>>
       \/ /\ args.tx_hash # 0                      \* "tx not found"
          /\ Abort(Error("NotFound", Some(args.tx_hash), None))
          /\ UNCHANGED <<tx, tx_block_number>>
       \/ /\ args.tx_hash # 0
          /\ \E t \in ProviderTxs(args.tx_hash) :
               /\ tx' = Some(t)
               /\ IF IsSystemTarget(t)
                  THEN /\ Abort(Error("SystemTransaction", Some(t.hash), None))
                       /\ UNCHANGED tx_block_number
                  ELSE IF t.block_number = None
                  THEN /\ Abort(Error("Pending", Some(args.tx_hash), None))
                       /\ UNCHANGED tx_block_number
                  ELSE /\ tx_block_number' = Unwrap(t.block_number)
                       /\ pc' = "get_block"
                       /\ UNCHANGED err
    /\ UNCHANGED <<args, block, fork_block_number, evm_version, env, backend,
                   cloned_projects, txs, index, result, console_logs, hist>>

\* run.rs:137-138: fetch the block the transaction was mined in.
GetBlock ==
    /\ pc = "get_block"
    /\ \/ /\ Abort(Error("FetchFailure", None, None))    \* get_block(..)?
          /\ UNCHANGED block
       \/ /\ block' = None
          /\ pc' = "fork"
          /\ UNCHANGED err
       \/ /\ \E b \in ProviderBlocks(tx_block_number, Unwrap(tx)) :
               block' = Some(b)
          /\ pc' = "fork"
          /\ UNCHANGED err
    /\ UNCHANGED <<args, tx, tx_block_number, fork_block_number, evm_version,
                   env, backend, cloned_projects, txs, index, result,
                   console_logs, hist>>

\* A fork point taken at the block of the transaction itself.
SameBlock(n) == {Some(n)}

\* run.rs:141: the outcomes of tx_block_number - 1 on a u64.  On 0 a build
\* with overflow checks panics (None) and a build without them wraps.
WrappingParent(n) == IF n = 0 THEN {None, Some(U64_MAX)} ELSE {Some(n - 1)}

\* run.rs:140-143: fork off the parent block.
ForkMaterial ==
    /\ pc = "fork"
    /\ \E parent \in WrappingParent(tx_block_number) :
          IF parent = None
          THEN /\ pc' = "panicked"
               /\ UNCHANGED <<fork_block_number, err>>
          ELSE /\ fork_block_number' = parent
               /\ \/ /\ pc' = "build_env"
                     /\ UNCHANGED err
                  \/ Abort(Error("ForkFailure", None, None))  \* get_fork_material(..)?
    /\ UNCHANGED <<args, tx, tx_block_number, block, evm_version, env, backend,
                   cloned_projects, txs, index, result, console_logs, hist>>

\* An inference that follows the header whatever the caller pinned.
InferEvmVersionFromHeader(pinned, blk) ==
    IF blk # None /\ Unwrap(blk).header.excess_blob_gas # None
    THEN Some("Cancun")
    ELSE pinned

\* run.rs:145, 159-164: the protocol version handed to the executor.
InferEvmVersion(pinned, blk) ==
    IF blk # None /\ pinned = None /\ Unwrap(blk).header.excess_blob_gas # None
    THEN Some("Cancun")
    ELSE pinned

\* A builder that leaves the template untouched when no block was fetched.
BlockEnvNeedsBlock(tmpl, n, blk) ==
    IF blk = None
    THEN tmpl
    ELSE LET h == Unwrap(blk).header IN
         [number |-> n,
          timestamp |-> h.timestamp,
          coinbase |-> h.miner,
          difficulty |-> h.difficulty,
          prevrandao |-> Some(IF h.mix_hash = None THEN "zero" ELSE Unwrap(h.mix_hash)),
          basefee |-> IF h.base_fee_per_gas = None THEN "zero"
                      ELSE Unwrap(h.base_fee_per_gas),
          gas_limit |-> h.gas_limit]

\* run.rs:147-156: the block fields of the environment.
BlockEnv(tmpl, n, blk) ==
    IF blk = None
    THEN [tmpl EXCEPT !.number = n]
    ELSE LET h == Unwrap(blk).header IN
         [number |-> n,
          timestamp |-> h.timestamp,
          coinbase |-> h.miner,
          difficulty |-> h.difficulty,
          prevrandao |-> Some(IF h.mix_hash = None THEN "zero" ELSE Unwrap(h.mix_hash)),
          basefee |-> IF h.base_fee_per_gas = None THEN "zero"
                      ELSE Unwrap(h.base_fee_per_gas),
          gas_limit |-> h.gas_limit]

\* TracingExecutor::new(env, fork, evm_version, debug): a backend forked at
\* the fork block, nothing executed, no override installed.
NewBackend(fork) == [fork |-> fork, overrides |-> {}, state |-> <<>>]

\* run.rs:168: tweak projects were given.
TweaksRequestedNever(a) == FALSE
TweaksRequested(a) == a.tweak # 0

\* run.rs:145-168: build the block environment and the executor.
BuildEnv ==
    /\ pc = "build_env"
    /\ evm_version' = InferEvmVersion(args.evm_version, block)
    /\ env' = [env EXCEPT !.block = BlockEnv(env.block, tx_block_number, block)]
    /\ backend' = Some(NewBackend(Unwrap(fork_block_number)))
    /\ pc' = IF TweaksRequested(args) THEN "tweak" ELSE "replay"
    /\ UNCHANGED <<args, tx, tx_block_number, block, fork_block_number,
                   cloned_projects, txs, index, result, console_logs, err, hist>>

\* A loader that installs each project as soon as it is loaded.
LoadTweakInstalling ==
    /\ pc = "tweak"
    /\ cloned_projects < args.tweak
    /\ \/ /\ Abort(Error("TweakLoadError", None, None))
          /\ UNCHANGED <<cloned_projects, backend>>
       \/ /\ cloned_projects' = cloned_projects + 1
          /\ backend' = Some([Unwrap(backend) EXCEPT !.overrides =
                                {<<a, IF args.quick THEN "previous block"
                                      ELSE "target block">> :
                                    a \in 1..(cloned_projects + 1)}])
          /\ UNCHANGED <<pc, err>>
    /\ UNCHANGED <<args, tx, tx_block_number, block, fork_block_number,
                   evm_version, env, txs, index, result, console_logs, hist>>

\* run.rs:171-179: load one tweak project.
LoadTweak ==
    /\ pc = "tweak"
    /\ cloned_projects < args.tweak
    /\ \/ /\ Abort(Error("TweakLoadError", None, None))    \* canonicalize fails
          /\ UNCHANGED cloned_projects
       \/ /\ Abort(Error("TweakLoadError", None, None))    \* load_with_root fails
          /\ UNCHANGED cloned_projects
       \/ /\ cloned_projects' = cloned_projects + 1
          /\ UNCHANGED <<pc, err>>
    /\ UNCHANGED <<args, tx, tx_block_number, block, fork_block_number,
                   evm_version, env, backend, txs, index, result, console_logs,
                   hist>>

\* foundry_tweak::build_tweak_data: one override per project, its source
\* state restricted to the previous block in quick mode.
build_tweak_data(n, quick) ==
    {<<a, IF quick THEN "previous block" ELSE "target block">> : a \in 1..n}

\* foundry_tweak::tweak_backend
tweak_backend(b, tweak_map) == [b EXCEPT !.overrides = tweak_map]

\* run.rs:180-182: build the override map and install it.
InstallTweaks ==
    /\ pc = "tweak"
    /\ cloned_projects = args.tweak
    /\ \/ /\ Abort(Error("TweakBuildError", None, None))   \* build_tweak_data(..)?
          /\ UNCHANGED <<backend, hist>>
       \/ /\ Abort(Error("TweakInstallError", None, None)) \* tweak_backend(..)?
          /\ UNCHANGED <<backend, hist>>
       \/ /\ backend' = Some(tweak_backend(Unwrap(backend),
                                 build_tweak_data(cloned_projects, args.quick)))
          /\ hist' = Append(hist, InstallEvent(Unwrap(backend)))
          /\ pc' = "replay"
          /\ UNCHANGED err
    /\ UNCHANGED <<args, tx, tx_block_number, block, fork_block_number,
                   evm_version, env, cloned_projects, txs, index, result,
                   console_logs>>

\* run.rs:190: the replay of the preceding transactions is requested.
ReplayRequestedAlways(a) == TRUE
ReplayRequested(a) == ~a.quick

\* run.rs:212: the loop has reached the target transaction.
IsTargetNever(t, tx_hash) == FALSE
IsTargetAlways(t, tx_hash) == TRUE
IsTarget(t, tx_hash) == t.hash = tx_hash

\* run.rs:229-231: a deploy error of a preceding creation that is skipped.
IsToleratedDeployErrorNever(variant) == FALSE
IsToleratedDeployErrorAlways(variant) == TRUE
IsToleratedDeployError(variant) == variant = "Execution"

\* run.rs:220-225: the `?` on a preceding call propagates the backend's error.
PriorCallPropagatesNever(variant) == FALSE
PriorCallPropagates(variant) == variant # "Ok"

\* run.rs:255: the `?` on the target call propagates the backend's error.
TargetCallPropagatesNever(variant) == FALSE
TargetCallPropagates(variant) == variant # "Ok"

\* run.rs:265-270: TraceResult::try_from(err)? can fail only for an error
\* that is not EvmError::Execution.
TargetCreateMayAbortOnRevert(variant) == variant \in {"Other", "Execution"}
TargetCreateMayAbort(variant) == variant = "Other"

\* An entry that takes a list of hashes for a block with nothing to replay.
ReplayStartSkipsPartial ==
    /\ pc = "replay"
    /\ env' = [env EXCEPT !.spec_id = evm_version]
    /\ \/ /\ \/ ~ReplayRequested(args)
             \/ block = None
             \/ \E b \in block : b.transactions.variant # "Full"
          /\ pc' = "target"
          /\ UNCHANGED <<txs, index, err>>
       \/ /\ ReplayRequested(args)
          /\ \E b \in block : b.transactions.variant = "Full"
          /\ txs' = Unwrap(block).transactions.items
          /\ index' = 1
          /\ pc' = "loop"
          /\ UNCHANGED err
    /\ UNCHANGED <<args, tx, tx_block_number, block, fork_block_number,
                   evm_version, backend, cloned_projects, result, console_logs,
                   hist>>

\* run.rs:184-199: enter the replay of the preceding transactions.
ReplayStart ==
    /\ pc = "replay"
    /\ env' = [env EXCEPT !.spec_id = evm_version]
    /\ \/ /\ ~ReplayRequested(args)
          /\ pc' = "target"
          /\ UNCHANGED <<txs, index, err>>
       \/ /\ ReplayRequested(args)
          /\ block = None
          /\ pc' = "target"
          /\ UNCHANGED <<txs, index, err>>
       \/ /\ ReplayRequested(args)
          /\ block # None
          /\ Unwrap(block).transactions.variant # "Full"
          /\ Abort(Error("BlockTxs", None, None))     \* "Could not get block txs"
          /\ UNCHANGED <<txs, index>>
       \/ /\ ReplayRequested(args)
          /\ block # None
          /\ Unwrap(block).transactions.variant = "Full"
          /\ txs' = Unwrap(block).transactions.items
          /\ index' = 1
          /\ pc' = "loop"
          /\ UNCHANGED err
    /\ UNCHANGED <<args, tx, tx_block_number, block, fork_block_number,
                   evm_version, backend, cloned_projects, result, console_logs,
                   hist>>

\* A loop that stays on the transaction it has just executed.
Stay(i) == i

\* run.rs:201: the iteration moves on to the next transaction of the list.
Advance(i) == i + 1

\* run.rs:201-245: one iteration of the replay loop.
ReplayStep ==
    /\ pc = "loop"
    /\ \/ /\ index > Len(txs)                         \* the list is exhausted
          /\ pc' = "target"
          /\ UNCHANGED <<index, env, backend, err, hist>>
       \/ /\ index <= Len(txs)
          /\ IsSystemTx(txs[index])                   \* continue
          /\ index' = Advance(index)
          /\ UNCHANGED <<pc, env, backend, err, hist>>
       \/ /\ index <= Len(txs)
          /\ ~IsSystemTx(txs[index])
          /\ IsTarget(txs[index], args.tx_hash)       \* break
          /\ pc' = "target"
          /\ UNCHANGED <<index, env, backend, err, hist>>
       \/ /\ index <= Len(txs)
          /\ ~IsSystemTx(txs[index])
          /\ ~IsTarget(txs[index], args.tx_hash)
          /\ txs[index].to # None                     \* a call
          /\ LET e == configure_tx_env(env, txs[index])
                 r == commit_tx_with_env(Unwrap(backend), e)
             IN /\ env' = e
                /\ hist' = Append(hist, ExecEvent("prior", "call", index, e,
                                                  Unwrap(backend), r.variant))
                /\ backend' = Some(r.backend)
                /\ IF ~PriorCallPropagates(r.variant)
                   THEN /\ index' = Advance(index)
                        /\ UNCHANGED <<pc, err>>
                   ELSE /\ Abort(Error("FatalExecutionError",
                                       Some(txs[index].hash), Some(e.block.number)))
                        /\ UNCHANGED index
       \/ /\ index <= Len(txs)
          /\ ~IsSystemTx(txs[index])
          /\ ~IsTarget(txs[index], args.tx_hash)
          /\ txs[index].to = None                     \* a creation
          /\ LET e == configure_tx_env(env, txs[index])
                 r == deploy_with_env(Unwrap(backend), e)
             IN /\ env' = e
                /\ hist' = Append(hist, ExecEvent("prior", "create", index, e,
                                                  Unwrap(backend), r.variant))
                /\ backend' = Some(r.backend)
                /\ IF r.variant = "Ok" \/ IsToleratedDeployError(r.variant)
                   THEN /\ index' = Advance(index)
                        /\ UNCHANGED <<pc, err>>
                   ELSE /\ Abort(Error("FatalExecutionError",
                                       Some(txs[index].hash), Some(e.block.number)))
                        /\ UNCHANGED index
    /\ UNCHANGED <<args, tx, tx_block_number, block, fork_block_number,
                   evm_version, cloned_projects, txs, result, console_logs>>

\* An environment left as the last replayed transaction configured it.
TargetEnvStale(e, t) == e

\* run.rs:251: the environment of the target is configured from its record.
TargetEnv(e, t) == configure_tx_env(e, t)

\* run.rs:249-274: execute the target transaction.
ExecuteTarget ==
    /\ pc = "target"
    /\ LET t == Unwrap(tx)
           e == TargetEnv(env, t)
       IN /\ env' = e
          /\ \/ /\ t.to # None                       \* a call
                /\ LET r == commit_tx_with_env(Unwrap(backend), e)
                   IN /\ hist' = Append(hist, ExecEvent("target", "call", 0, e,
                                                        Unwrap(backend), r.variant))
                      /\ backend' = Some(r.backend)
                      /\ IF ~TargetCallPropagates(r.variant)
                         THEN /\ result' = Some(TraceResultFrom(r.raw))
                              /\ console_logs' = decode_console_logs(r.raw.logs)
                              /\ pc' = "traces"
                              /\ UNCHANGED err
                         ELSE /\ Abort(Error("FatalExecutionError", None, None))
                              /\ UNCHANGED <<result, console_logs>>
             \/ /\ t.to = None                       \* a creation, converted
                /\ LET r == deploy_with_env(Unwrap(backend), e)
                   IN /\ hist' = Append(hist, ExecEvent("target", "create", 0, e,
                                                        Unwrap(backend), r.variant))
                      /\ backend' = Some(r.backend)
                      /\ result' = Some(IF r.variant = "Ok"
                                        THEN TraceResultFrom(r.raw)
                                        ELSE TraceResultFromErr(r.raw))
                      /\ console_logs' = IF r.variant = "Other" THEN <<>>
                                         ELSE decode_console_logs(r.raw.logs)
                      /\ pc' = "traces"
                      /\ UNCHANGED err
             \/ /\ t.to = None                       \* TraceResult::try_from(err)?
                /\ LET r == deploy_with_env(Unwrap(backend), e)
                   IN /\ TargetCreateMayAbort(r.variant)
                      /\ hist' = Append(hist, ExecEvent("target", "create", 0, e,
                                                        Unwrap(backend), r.variant))
                      /\ backend' = Some(r.backend)
                      /\ Abort(Error("FatalExecutionError", None, None))
                      /\ UNCHANGED <<result, console_logs>>
    /\ UNCHANGED <<args, tx, tx_block_number, block, fork_block_number,
                   evm_version, cloned_projects, txs, index>>

\* A presenter that sends the run back to execute the target again.
HandleTracesRerun ==
    /\ pc = "traces"
    /\ \/ Abort(Error("TraceError", None, None))
       \/ /\ pc' = "target"
          /\ UNCHANGED err
    /\ UNCHANGED <<args, tx, tx_block_number, block, fork_block_number,
                   evm_version, env, backend, cloned_projects, txs, index,
                   result, console_logs, hist>>

\* A presenter that may lose the console logs on the way out.
HandleTracesLossy ==
    /\ pc = "traces"
    /\ \/ /\ Abort(Error("TraceError", None, None))
          /\ UNCHANGED console_logs
       \/ /\ pc' = "done"
          /\ \E keep \in BOOLEAN :
                console_logs' = IF keep THEN console_logs ELSE <<>>
          /\ UNCHANGED err
    /\ UNCHANGED <<args, tx, tx_block_number, block, fork_block_number,
                   evm_version, env, backend, cloned_projects, txs, index,
                   result, hist>>

\* run.rs:276-287: hand the result to the trace presenter, whose error ends
\* the run before the logs are printed; print the logs.
HandleTraces ==
    /\ pc = "traces"
    /\ \/ Abort(Error("TraceError", None, None))        \* handle_traces(..)?
       \/ /\ pc' = "done"
          /\ UNCHANGED err
    /\ UNCHANGED <<args, tx, tx_block_number, block, fork_block_number,
                   evm_version, env, backend, cloned_projects, txs, index,
                   result, console_logs, hist>>

Next ==
    \/ Preflight
    \/ Resolve
    \/ GetBlock
    \/ ForkMaterial
    \/ BuildEnv
    \/ LoadTweak
    \/ InstallTweaks
    \/ ReplayStart
    \/ ReplayStep
    \/ ExecuteTarget
    \/ HandleTraces

Spec == Init /\ [][Next]_vars

\* run.rs:96-288: `run` is one sequential body: the step it stands at is
\* taken, every await returning an answer or an error.
\* The runs checked for termination: those of Init whose target hash lies
\* below the longest transaction list.
FairInit ==
    /\ Init
    /\ args.tx_hash < MaxTxs

FairSpec == FairInit /\ [][Next]_vars /\ WF_vars(Next)

\* ------------------------------------------------------------- properties
\* The executions recorded so far, in order.
Execs == SelectSeq(hist, LAMBDA ev : ev.op = "exec")
TargetExecuted == \E a \in 1..Len(Execs) : Execs[a].phase = "target"

\* The run got past the execution of the target: it stands before or after
\* the trace presenter, or the presenter's error ended it.
PastTarget ==
    \/ pc \in {"traces", "done"}
    \/ pc = "aborted" /\ \E e \in err : e.kind = "TraceError"

\* The transaction list of the fetched block, as the provider returned it.
BlockFull == block # None /\ Unwrap(block).transactions.variant = "Full"
BlockTxs == IF BlockFull THEN Unwrap(block).transactions.items ELSE <<>>
TargetInBlock == args.tx_hash \in 1..Len(BlockTxs)

\* A system transaction, read off the record's sender and type tag.
SystemShaped(t) == t.from = "system" \/ SYSTEM_TRANSACTION_TYPE \in t.transaction_type

\* The transactions of `list` that are not system transactions, in order.
WithoutSystem(list) == SelectSeq(list, LAMBDA t : ~SystemShaped(t))
Prefix(list, n) == [i \in 1..n |-> list[i]]
Hashes(list) == [i \in 1..Len(list) |-> list[i].hash]

\* The backend an execution leaves behind.
After(ev) ==
    IF ev.path = "call" THEN commit_tx_with_env(ev.on, ev.env).backend
    ELSE deploy_with_env(ev.on, ev.env).backend

\* The backend after replaying `list` from position i up to the transaction
\* with hash h, every transaction of the list being executed.
RECURSIVE RefReplay(_, _, _, _)
RefReplay(list, i, b, h) ==
    IF i > Len(list) \/ list[i].hash = h THEN b
    ELSE LET e == configure_tx_env(TemplateEnv, list[i])
             r == IF list[i].to # None THEN commit_tx_with_env(b, e)
                  ELSE deploy_with_env(b, e)
         IN RefReplay(list, i + 1, r.backend, h)

\* C1: with quick=false the non-system transactions before the target are
\* executed in increasing index order, each once, each on the backend left by
\* the execution before it, and the target is executed after all of them.
C1_OrderedReplay ==
    ~args.quick =>
      /\ \A a, b \in 1..Len(Execs) :
            a < b => /\ Execs[a].phase = "prior"
                     /\ Execs[b].phase = "prior" => Execs[a].idx < Execs[b].idx
      /\ \A a \in 1..Len(Execs) :
            /\ a = 1 => Execs[a].on.state = <<>>
            /\ a > 1 => Execs[a].on = After(Execs[a - 1])
            /\ Execs[a].phase = "prior" => Execs[a].env.tx.data = Execs[a].idx
      /\ (TargetInBlock /\ TargetExecuted) =>
            [a \in 1..Len(Execs) |-> Execs[a].env.tx.data]
              = Hashes(WithoutSystem(Prefix(BlockTxs, args.tx_hash - 1)))
                  \o <<args.tx_hash>>

\* A run that replayed two preceding transactions and then the target.
C1_Witness ==
    /\ pc = "done"
    /\ ~args.quick
    /\ TargetInBlock
    /\ Len(Execs) = 3
    /\ Execs[1].idx < Execs[2].idx
    /\ Execs[3].phase = "target"
    /\ Execs[3].on.state # <<>>

\* C2: system transactions before the target leave the backend alone: the
\* backend the target runs on, the backend after it and the result are
\* those of a replay of the block with its system transactions removed.
C2_SystemSkipped ==
    (~args.quick /\ BlockFull) =>
      \A a \in 1..Len(Execs) :
        Execs[a].phase = "target" =>
          LET ref == RefReplay(WithoutSystem(BlockTxs), 1,
                               [Execs[a].on EXCEPT !.state = <<>>], args.tx_hash)
          IN /\ Execs[a].on = ref
             /\ Unwrap(backend) = After([Execs[a] EXCEPT !.on = ref])
             /\ result # None => Unwrap(result).on = ref

\* A finished run whose block holds a system-type transaction and an
\* ordinary one before the target.
C2_Witness ==
    /\ pc = "done"
    /\ ~args.quick
    /\ BlockFull
    /\ Len(BlockTxs) = 3
    /\ args.tx_hash = 3
    /\ \E j, k \in 1..2 :
          /\ SYSTEM_TRANSACTION_TYPE \in BlockTxs[j].transaction_type
          /\ ~SystemShaped(BlockTxs[k])
    /\ Len(Execs) = 2

\* The override map the command line asks for.
ExpectedOverrides ==
    {<<a, IF args.quick THEN "previous block" ELSE "target block">> :
        a \in 1..args.tweak}

\* C3: with quick=true the only execution of a run is the target, on the
\* backend forked at the parent block with the overrides installed and no
\* transaction applied.
C3_QuickOnlyTarget ==
    args.quick =>
      /\ Len(Execs) <= 1
      /\ \A a \in 1..Len(Execs) :
            /\ Execs[a].phase = "target"
            /\ Execs[a].env.tx.data = args.tx_hash
            /\ Execs[a].on = [fork |-> Unwrap(fork_block_number),
                              overrides |-> ExpectedOverrides, state |-> <<>>]
            /\ tx_block_number >= 1 => Execs[a].on.fork = tx_block_number - 1

\* A finished quick run over a block with an ordinary transaction before
\* the target, with overrides.
C3_Witness ==
    /\ pc = "done"
    /\ args.quick
    /\ args.tweak # 0
    /\ BlockFull
    /\ args.tx_hash = 2
    /\ Len(BlockTxs) >= 2
    /\ ~SystemShaped(BlockTxs[1])
    /\ Len(Execs) = 1

\* C4: a preceding creation that reverts does not abort the run: the loop
\* goes on to the next transaction with no error and the backend unchanged,
\* no abort names a reverting creation, and what runs next runs on the
\* backend the creation found.
C4_CreationRevertTolerated ==
    /\ \A a \in 1..Len(Execs) :
          (Execs[a].phase = "prior" /\ Execs[a].path = "create"
             /\ Execs[a].env.tx.behav = "revert") =>
            /\ a = Len(Execs) =>
                  /\ pc \in {"loop", "target"}
                  /\ err = None
                  /\ Unwrap(backend) = Execs[a].on
                  /\ pc = "loop" => index > Execs[a].idx
            /\ a < Len(Execs) => Execs[a + 1].on = Execs[a].on
    /\ \A e \in err : \A h \in e.hash :
          (e.kind = "FatalExecutionError" /\ h \in 1..Len(BlockTxs)) =>
             ~(BlockTxs[h].to = None /\ BlockTxs[h].behav = "revert")

\* The run [call, reverting creation, target call] ended with the target's
\* result, computed on the state the call left.
C4_Witness ==
    /\ pc = "done"
    /\ Len(Execs) = 3
    /\ Execs[1].path = "call"
    /\ Execs[2].path = "create" /\ Execs[2].variant = "Execution"
    /\ Execs[3].phase = "target" /\ Execs[3].path = "call"
    /\ Execs[3].on.state = <<<<1, "ok">>>>
    /\ \E r \in result : r.success

\* The error a failed preceding transaction ends the run with.
PriorError(ev) ==
    Error("FatalExecutionError", Some(ev.env.tx.data), Some(tx_block_number))

\* C5 as stated: a call before the target whose execution fails for any
\* reason, a revert or a fatal error, aborts the run with an error naming
\* its hash and the block number, and nothing is executed after it.  (A
\* run on block 0, forked off no parent, is not held against the statement.)
C5_AnyCallFailureAborts ==
    \A a \in 1..Len(Execs) :
      (TargetInBlock /\ tx_block_number >= 1
         /\ Execs[a].phase = "prior" /\ Execs[a].path = "call"
         /\ Execs[a].env.tx.behav # "ok") =>
        /\ a = Len(Execs)
        /\ pc = "aborted"
        /\ err = Some(PriorError(Execs[a]))

\* C5: a preceding call for which the backend returns an error aborts the
\* run with an error naming its hash and the block number, and nothing is
\* executed after it; a preceding call that reverts is a result: it is
\* committed and the replay goes on.
C5_CallErrorAborts ==
    \A a \in 1..Len(Execs) :
      (Execs[a].phase = "prior" /\ Execs[a].path = "call") =>
        /\ Execs[a].env.tx.behav = "fatal" =>
              /\ a = Len(Execs)
              /\ pc = "aborted"
              /\ err = Some(PriorError(Execs[a]))
              /\ Unwrap(backend) = Execs[a].on
        /\ (Execs[a].env.tx.behav = "revert" /\ a = Len(Execs)) =>
              /\ pc \in {"loop", "target"}
              /\ err = None
              /\ Unwrap(backend).state =
                    Append(Execs[a].on.state, <<Execs[a].env.tx.data, "revert">>)

\* The second preceding call failed fatally and the run aborted naming it.
C5_Witness ==
    /\ pc = "aborted"
    /\ Len(Execs) = 2
    /\ Execs[2].phase = "prior" /\ Execs[2].path = "call"
    /\ Execs[2].variant = "Err"
    /\ err = Some(Error("FatalExecutionError", Some(2), Some(tx_block_number)))

\* C6: a preceding creation whose deploy fails with an error other than an
\* execution revert aborts the run with an error naming its hash and the
\* block number; it is the last execution and the target is never executed.
C6_CreationFatalAborts ==
    \A a \in 1..Len(Execs) :
      (Execs[a].phase = "prior" /\ Execs[a].path = "create"
         /\ Execs[a].env.tx.behav = "fatal") =>
        /\ a = Len(Execs)
        /\ pc = "aborted"
        /\ err = Some(PriorError(Execs[a]))
        /\ ~TargetExecuted
        /\ result = None

\* A creation after a committed call failed fatally and the run aborted.
C6_Witness ==
    /\ pc = "aborted"
    /\ Len(Execs) = 2
    /\ Execs[1].variant = "Ok"
    /\ Execs[2].phase = "prior" /\ Execs[2].path = "create"
    /\ Execs[2].variant = "Other"
    /\ err = Some(Error("FatalExecutionError", Some(2), Some(tx_block_number)))

\* C7 as stated: whatever the target's failure, the execution of the
\* target does not abort the run: it goes on to the presenter with a result
\* payload.  (The conversion of a creation's fatal error,
\* TraceResult::try_from, is the collaborator's, and an error of the trace
\* presenter is not a failure of the target: neither is held against the
\* statement, nor is a run on block 0, forked off no parent.)
C7_TargetFailureNeverAborts ==
    \A a \in 1..Len(Execs) :
      (Execs[a].phase = "target" /\ tx_block_number >= 1
         /\ ~(Execs[a].path = "create" /\ Execs[a].env.tx.behav = "fatal")) =>
        /\ PastTarget
        /\ result # None

\* C7: a revert of the target is returned as data, for a call (a result
\* carrying the revert) and for a creation (a structured error result)
\* alike; a fatal error of a target call ends the run in an abort with no
\* result.
C7_TargetRevertIsData ==
    \A a \in 1..Len(Execs) :
      Execs[a].phase = "target" =>
        /\ Execs[a].env.tx.behav = "revert" =>
              /\ PastTarget
              /\ \A e \in err : e.kind = "TraceError"
              /\ \E r \in result :
                    /\ ~r.success
                    /\ r.data = args.tx_hash
                    /\ r.structured <=> Execs[a].path = "create"
        /\ (Execs[a].env.tx.behav = "fatal" /\ Execs[a].path = "call") =>
              /\ pc = "aborted"
              /\ result = None

\* A target creation reverted and the run finished with the structured
\* result.
C7_Witness ==
    /\ pc = "done"
    /\ TargetExecuted
    /\ \E t \in tx : t.to = None /\ t.behav = "revert"
    /\ \E r \in result : r.structured /\ ~r.success

\* C8: a failure of a target call is the outcome of the run: a backend
\* error ends the run with that error and no result, a revert is returned
\* as a result that is not a success; a successful result means the call
\* succeeded.
C8_TargetCallFailurePropagates ==
    \A a \in 1..Len(Execs) :
      (Execs[a].phase = "target" /\ Execs[a].path = "call") =>
        /\ Execs[a].variant = "Err" =>
              /\ pc = "aborted"
              /\ err = Some(Error("FatalExecutionError", None, None))
              /\ result = None
        /\ \A r \in result : r.success <=> Execs[a].env.tx.behav = "ok"

\* A target call failed fatally after a replayed transaction and the run
\* ended with the error.
C8_Witness ==
    /\ pc = "aborted"
    /\ Len(Execs) = 2
    /\ Execs[2].phase = "target" /\ Execs[2].path = "call"
    /\ Execs[2].variant = "Err"
    /\ result = None

\* C9: the resolver rejects before a block is fetched, a fork is built or a
\* transaction is executed: NotFound without a record, SystemTransaction
\* for a system sender or the system type tag, Pending without a block
\* number; a run that gets past it has a target that is no system
\* transaction and has a block number.
C9_ResolverRejects ==
    /\ \A e \in err :
          e.kind \in {"NotFound", "SystemTransaction", "Pending"} =>
            /\ block = None
            /\ fork_block_number = None
            /\ backend = None
            /\ hist = <<>>
    /\ \A t \in tx :
          IF SystemShaped(t)
          THEN pc = "aborted" /\ err = Some(Error("SystemTransaction", Some(t.hash), None))
          ELSE IF t.block_number = None
          THEN pc = "aborted" /\ err = Some(Error("Pending", Some(t.hash), None))
          ELSE /\ tx_block_number \in t.block_number
               /\ \A e \in err :
                     e.kind \notin {"NotFound", "SystemTransaction", "Pending"}
    /\ tx = None =>
          /\ pc \in {"preflight", "panicked", "resolve", "aborted"}
          /\ \A e \in err : e.kind \in {"PreflightError", "InvalidHash", "NotFound"}
    /\ pc \notin {"preflight", "panicked", "resolve", "aborted"} =>
          \E t \in tx : ~SystemShaped(t) /\ t.block_number # None

\* A target sent by a system sender, with an ordinary type tag, was
\* rejected.
C9_Witness ==
    /\ pc = "aborted"
    /\ \E t \in tx : t.from = "system"
                      /\ SYSTEM_TRANSACTION_TYPE \notin t.transaction_type
                      /\ t.block_number # None
    /\ \E e \in err : e.kind = "SystemTransaction"
    /\ backend = None

\* C10: the overrides are installed at most once, exactly once when tweak
\* paths are given, on a backend nothing was executed on; no installation
\* follows an execution, and every execution, the first included, runs on
\* a backend holding the requested overrides.
C10_InstallBeforeReplay ==
    /\ Cardinality({a \in 1..Len(hist) : hist[a].op = "install"}) <= 1
    /\ \A a, b \in 1..Len(hist) :
          (a < b /\ hist[a].op = "exec") => hist[b].op = "exec"
    /\ \A a \in 1..Len(hist) :
          /\ hist[a].op = "install" =>
                hist[a].on.state = <<>> /\ hist[a].on.overrides = {}
          /\ hist[a].op = "exec" =>
                /\ hist[a].on.overrides = ExpectedOverrides
                /\ args.tweak # 0 => hist[1].op = "install"

\* A finished run with tweak paths that replayed a transaction before the
\* target.
C10_Witness ==
    /\ pc = "done"
    /\ ~args.quick
    /\ args.tweak # 0
    /\ Len(hist) = 3
    /\ hist[1].op = "install"
    /\ hist[2].phase = "prior"
    /\ hist[3].phase = "target"

\* C11: the installation is all or nothing: a tweak path that cannot be
\* canonicalized or loaded ends the run with a tweak load error, whatever
\* number of projects was loaded before it, with no override in the backend
\* and nothing executed; the backend holds no override or all of them; with
\* no tweak path the installer never runs and the backend holds none.
C11_InstallAllOrNothing ==
    /\ \A e \in err :
          e.kind = "TweakLoadError" =>
            /\ pc = "aborted"
            /\ cloned_projects < args.tweak
            /\ \A b \in backend : b.overrides = {} /\ b.state = <<>>
            /\ hist = <<>>
    /\ \A b \in backend : b.overrides \in {{}, ExpectedOverrides}
    /\ pc = "tweak" => \A b \in backend : b.overrides = {}
    /\ args.tweak = 0 =>
          /\ \A b \in backend : b.overrides = {}
          /\ \A a \in 1..Len(hist) : hist[a].op # "install"
          /\ pc # "tweak"

\* The second of two tweak paths failed to load after the first was loaded.
C11_Witness ==
    /\ pc = "aborted"
    /\ args.tweak = 2
    /\ cloned_projects = 1
    /\ \E e \in err : e.kind = "TweakLoadError"
    /\ \E b \in backend : b.overrides = {}

\* C12: with quick=false a block fetched with transaction hashes only ends
\* the run before the replay: the run never enters the loop or the target
\* phase, nothing is executed, and the abort is the only way on.
C12_NoReplayFromPartialBlock ==
    /\ (~args.quick /\ block # None /\ ~BlockFull) =>
          /\ pc \notin {"loop", "target", "traces", "done"}
          /\ Execs = <<>>
          /\ result = None
    /\ \A e \in err :
          e.kind = "BlockTxs" =>
            /\ ~args.quick /\ block # None /\ ~BlockFull
            /\ pc = "aborted"
    /\ pc = "loop" => BlockFull /\ txs = BlockTxs

\* A run without quick whose block came with two hashes aborted with
\* nothing executed.
C12_Witness ==
    /\ pc = "aborted"
    /\ ~args.quick
    /\ \E b \in block : b.transactions.variant = "Hashes"
                         /\ Len(b.transactions.items) = 2
    /\ \E e \in err : e.kind = "BlockTxs"
    /\ Execs = <<>>

\* The run has ended: with its traces printed, with an error or in a panic.
Ended == pc \in {"done", "aborted", "panicked"}

\* C13: every run ends, in Done or in an abort (before the resolver also in
\* a panic of the configuration lookup); a preceding transaction
\* whose error is fatal ends the run on the spot; no transaction is executed
\* twice; once the run holds an error it has ended, and an ended run takes
\* no step: nothing is fetched, installed or executed after it.
C13_TerminatesWithoutRetry ==
    /\ <>Ended
    /\ [](\A a, b \in 1..Len(Execs) :
            a # b => Execs[a].env.tx.data # Execs[b].env.tx.data)
    /\ [](\A a \in 1..Len(Execs) :
            (Execs[a].phase = "prior" /\ Execs[a].env.tx.behav = "fatal") =>
               a = Len(Execs) /\ pc = "aborted" /\ err # None)
    /\ [](err # None <=> pc = "aborted")
    /\ [][~Ended /\ (Ended' => Len(hist') <= Len(hist) + 1)]_vars

\* The run aborted on the fatal error of the first transaction, with the
\* target and a later transaction of the block left unexecuted.
C13_Witness ==
    /\ pc = "aborted"
    /\ ~args.quick
    /\ BlockFull
    /\ Len(BlockTxs) = MaxTxs
    /\ args.tx_hash = 2
    /\ Len(Execs) = 1
    /\ Execs[1].phase = "prior"
    /\ Execs[1].env.tx.behav = "fatal"
    /\ \E e \in err : e.kind = "FatalExecutionError"

\* What an execution is, apart from the environment it ran in: its phase,
\* its path, the hash executed, the backend it ran on and how it ended.
Shape(ev) == <<ev.phase, ev.path, ev.env.tx.data, ev.on, ev.variant>>

\* The executions the inputs prescribe before the target: the list is read
\* from position i on backend b up to the transaction with hash h, system
\* transactions are passed over, and a fatal error is the last of them.
RECURSIVE RefPrior(_, _, _, _)
RefPrior(list, i, b, h) ==
    IF i > Len(list) THEN <<>>
    ELSE IF SystemShaped(list[i]) THEN RefPrior(list, i + 1, b, h)
    ELSE IF list[i].hash = h THEN <<>>
    ELSE LET e == configure_tx_env(TemplateEnv, list[i])
             r == IF list[i].to # None THEN commit_tx_with_env(b, e)
                  ELSE deploy_with_env(b, e)
             ev == <<"prior", IF list[i].to # None THEN "call" ELSE "create",
                     list[i].hash, b, r.variant>>
         IN IF r.variant \in {"Err", "Other"} THEN <<ev>>
            ELSE <<ev>> \o RefPrior(list, i + 1, r.backend, h)

\* The run prescribed by the inputs alone: the flags, the resolved target
\* and the fetched block, on the parent state without overrides.
ForkNumber == IF tx_block_number = 0 THEN U64_MAX ELSE tx_block_number - 1
RefParent == [fork |-> ForkNumber, overrides |-> {}, state |-> <<>>]
RefList == IF args.quick THEN <<>> ELSE BlockTxs
RefBefore == RefPrior(RefList, 1, RefParent, args.tx_hash)
RefStopped ==
    RefBefore # <<>> /\ RefBefore[Len(RefBefore)][5] \in {"Err", "Other"}
RefTargetEnv == configure_tx_env(TemplateEnv, Unwrap(tx))
RefTargetOn == RefReplay(WithoutSystem(RefList), 1, RefParent, args.tx_hash)
RefTargetRun ==
    IF Unwrap(tx).to # None THEN commit_tx_with_env(RefTargetOn, RefTargetEnv)
    ELSE deploy_with_env(RefTargetOn, RefTargetEnv)
RefExecs ==
    IF RefStopped THEN RefBefore
    ELSE Append(RefBefore,
                <<"target", IF Unwrap(tx).to # None THEN "call" ELSE "create",
                  Unwrap(tx).hash, RefTargetOn, RefTargetRun.variant>>)
RefResult ==
    IF RefTargetRun.variant = "Ok" THEN TraceResultFrom(RefTargetRun.raw)
    ELSE TraceResultFromErr(RefTargetRun.raw)
RefLogs ==
    IF RefTargetRun.variant = "Other" THEN <<>>
    ELSE decode_console_logs(RefTargetRun.raw.logs)

\* C14: without overrides the executions of a run and its outcome are a
\* function of the flags, the resolved target and the fetched block: at
\* every moment the executions made are the first of the prescribed
\* sequence, a run that executed its target made all of them, and the
\* result payload and the log sequence it ends with are the prescribed
\* ones, so two runs on the same inputs cannot differ.
C14_Deterministic ==
    (args.tweak = 0 /\ tx # None) =>
      /\ Len(Execs) <= Len(RefExecs)
      /\ \A a \in 1..Len(Execs) : Shape(Execs[a]) = RefExecs[a]
      /\ (PastTarget \/ TargetExecuted) =>
            Len(Execs) = Len(RefExecs)
      /\ \A e \in err : e.kind = "FatalExecutionError" =>
            Len(Execs) = Len(RefExecs)
      /\ PastTarget =>
            /\ result = Some(RefResult)
            /\ console_logs = RefLogs
      /\ ~PastTarget =>
            result = None /\ console_logs = <<>>

\* A finished run without overrides that passed over a system transaction,
\* committed a reverting call and ended with the logs of its target.
C14_Witness ==
    /\ pc = "done"
    /\ args.tweak = 0
    /\ ~args.quick
    /\ args.tx_hash = 3
    /\ TargetInBlock
    /\ Len(Execs) = 2
    /\ Execs[1].env.tx.behav = "revert"
    /\ \E k \in 1..2 : SystemShaped(BlockTxs[k])
    /\ console_logs # <<>>

\* C15 as stated: for every resolved block number N the fork point is the
\* parent block N - 1, never N, and for N >= 1 it lies below N (no wrap);
\* the backend is forked there and every execution runs on that fork with
\* the block number N.
C15_ForkIsParent ==
    /\ \A f \in fork_block_number :
          /\ f = tx_block_number - 1
          /\ f # tx_block_number
          /\ tx_block_number >= 1 => f >= 0 /\ f < tx_block_number
    /\ \A b \in backend : b.fork = tx_block_number - 1
    /\ \A a \in 1..Len(Execs) :
          /\ Execs[a].env.block.number = tx_block_number
          /\ Execs[a].on.fork = tx_block_number - 1

\* C15, what the run does: for N >= 1 the fork point is N - 1, below N and
\* not wrapped; for N = 0 the subtraction of run.rs:141 either panics, and
\* the run ends with no fork point, or wraps, and the fork point is the
\* largest u64, above N; the fork point is never N; the backend is forked
\* at the fork point and every execution runs on it with the block number N.
C15_ForkAtParent ==
    /\ (tx # None /\ pc \notin {"resolve", "aborted", "panicked"}) =>
          Unwrap(tx).block_number = Some(tx_block_number)
    /\ \A f \in fork_block_number :
          /\ f # tx_block_number
          /\ tx_block_number >= 1 =>
                f = tx_block_number - 1 /\ f >= 0 /\ f < tx_block_number
          /\ tx_block_number = 0 => f = U64_MAX /\ f > tx_block_number
    /\ (pc = "panicked" /\ tx # None) =>
          /\ Unwrap(tx).block_number = Some(0)
          /\ fork_block_number = None
          /\ backend = None /\ hist = <<>>
    /\ \A b \in backend : b.fork \in fork_block_number
    /\ \A a \in 1..Len(Execs) :
          /\ Execs[a].env.block.number = tx_block_number
          /\ Execs[a].on.fork \in fork_block_number

\* A run on a transaction of block 0 in a build without overflow checks:
\* the fork point wrapped to the largest u64 and the target was executed on
\* that fork under the block number 0.
C15_Witness ==
    /\ pc = "done"
    /\ tx_block_number = 0
    /\ \E t \in tx : t.block_number = Some(0)
    /\ fork_block_number = Some(U64_MAX)
    /\ Len(Execs) >= 1
    /\ \A a \in 1..Len(Execs) :
          Execs[a].on.fork = U64_MAX /\ Execs[a].env.block.number = 0

\* The protocol version the flags and the fetched header call for.
ExpectedVersion ==
    IF args.evm_version # None THEN args.evm_version
    ELSE IF \E b \in block : b.header.excess_blob_gas # None
    THEN Some("Cancun")
    ELSE None

\* C16: once the environment is built the version is the pinned one when
\* the caller pinned one, whatever the header holds; Cancun when none is
\* pinned and the fetched header has an excess-blob-gas field; unset
\* otherwise; and every execution runs under that version.
C16_VersionSelection ==
    /\ backend # None =>
          /\ evm_version = ExpectedVersion
          /\ args.evm_version # None => evm_version = args.evm_version
          /\ evm_version = Some("Cancun") <=>
                /\ args.evm_version = None
                /\ \E b \in block : b.header.excess_blob_gas # None
          /\ evm_version = None <=>
                /\ args.evm_version = None
                /\ \A b \in block : b.header.excess_blob_gas = None
    /\ backend = None => evm_version = None
    /\ \A a \in 1..Len(Execs) : Execs[a].env.spec_id = ExpectedVersion

\* A finished run with no pinned version on a block whose header has the
\* excess-blob-gas field: the target ran under Cancun.
C16_Witness ==
    /\ pc = "done"
    /\ args.evm_version = None
    /\ \E b \in block : b.header.excess_blob_gas # None
    /\ evm_version = Some("Cancun")
    /\ \E a \in 1..Len(Execs) :
          Execs[a].phase = "target" /\ Execs[a].env.spec_id = Some("Cancun")

\* The phase of the run: Resolved once the target is resolved, Forked once
\* the executor stands on the parent state, Overridden once the overrides
\* are installed, Replaying while the loop runs and until the target is
\* executed, then TargetExecuted and Done; Aborted after an error, Panicked
\* after a panic.
Installed == \E a \in 1..Len(hist) : hist[a].op = "install"
Phase ==
    CASE pc \in {"preflight", "resolve"} -> "Start"
      [] pc \in {"get_block", "fork", "build_env"} -> "Resolved"
      [] pc = "tweak" -> "Forked"
      [] pc = "replay" -> IF Installed THEN "Overridden" ELSE "Forked"
      [] pc \in {"loop", "target"} -> "Replaying"
      [] pc = "traces" -> "TargetExecuted"
      [] pc = "done" -> "Done"
      [] pc = "aborted" -> "Aborted"
      [] pc = "panicked" -> "Panicked"

\* The phases that may follow one another in one step.
PhaseEdges ==
    {<<"Start", "Resolved">>, <<"Resolved", "Forked">>,
     <<"Forked", "Overridden">>, <<"Forked", "Replaying">>,
     <<"Overridden", "Replaying">>, <<"Replaying", "TargetExecuted">>,
     <<"TargetExecuted", "Done">>}
    \cup {<<p, "Aborted">> :
            p \in {"Start", "Resolved", "Forked", "Overridden", "Replaying",
                   "TargetExecuted"}}
    \cup {<<p, "Panicked">> : p \in {"Start", "Resolved"}}

\* C17: a step stays in its phase or moves along Resolved, Forked,
\* Overridden (when tweak paths are given, and only then), Replaying,
\* TargetExecuted, Done, or leaves the order for Aborted (or a panic before
\* the fork); a phase left is not entered again; Done, Aborted and the
\* panic have no successor; among the phases of the order the target has
\* been executed exactly in TargetExecuted and Done, once, as the last
\* execution.
C17_PhaseOrder ==
    /\ [][/\ Phase' # Phase => <<Phase, Phase'>> \in PhaseEdges
          /\ (Phase = "Forked" /\ Phase' = "Replaying") => args.tweak = 0
          /\ (Phase = "Forked" /\ Phase' = "Overridden") => args.tweak # 0
          /\ Phase \notin {"Done", "Aborted", "Panicked"}]_vars
    /\ [](Phase \in {"TargetExecuted", "Done"} =>
            /\ TargetExecuted
            /\ Cardinality({a \in 1..Len(Execs) : Execs[a].phase = "target"}) = 1
            /\ Execs[Len(Execs)].phase = "target"
            /\ Unwrap(backend) = After(Execs[Len(Execs)]))
    /\ [](Phase \in {"Start", "Resolved", "Forked", "Overridden", "Replaying"} =>
            ~TargetExecuted)

\* A finished run that went through every phase: overrides installed, two
\* transactions replayed, the target executed last.
C17_Witness ==
    /\ pc = "done"
    /\ Installed
    /\ Len(Execs) = 3
    /\ Execs[1].phase = "prior" /\ Execs[2].phase = "prior"
    /\ Execs[3].phase = "target"

\* The block fields the environment builder leaves: the number of the
\* resolved block, the header's fields when a block was fetched (zero for
\* a missing mix hash or base fee), the template's fields otherwise.
ExpectedBlockEnv ==
    IF block = None
    THEN [number |-> tx_block_number, timestamp |-> "template",
          coinbase |-> "template", difficulty |-> "template",
          prevrandao |-> None, basefee |-> "template", gas_limit |-> "template"]
    ELSE LET h == Unwrap(block).header IN
         [number |-> tx_block_number, timestamp |-> h.timestamp,
          coinbase |-> h.miner, difficulty |-> h.difficulty,
          prevrandao |-> IF h.mix_hash = None THEN Some("zero") ELSE h.mix_hash,
          basefee |-> IF h.base_fee_per_gas = None THEN "zero"
                      ELSE Unwrap(h.base_fee_per_gas),
          gas_limit |-> h.gas_limit]

\* The transaction fields of the environment configured from record t.
TxFields(t) ==
    [caller |-> t.from, transact_to |-> t.to, data |-> t.hash, behav |-> t.behav]

\* C18: from the moment the executor is built the block fields of the
\* environment are the ones the builder left and no step changes them;
\* every execution runs with these block fields and with the transaction
\* fields of the transaction it executes: the record at its own position of
\* the list for a preceding transaction, the resolved record for the target.
C18_EnvPerExecution ==
    /\ backend # None => env.block = ExpectedBlockEnv
    /\ \A a \in 1..Len(Execs) :
          /\ Execs[a].env.block = ExpectedBlockEnv
          /\ Execs[a].phase = "prior" =>
                /\ Execs[a].idx \in 1..Len(BlockTxs)
                /\ ~SystemShaped(BlockTxs[Execs[a].idx])
                /\ Execs[a].env.tx = TxFields(BlockTxs[Execs[a].idx])
          /\ Execs[a].phase = "target" =>
                Execs[a].env.tx = TxFields(Unwrap(tx))
    /\ (Execs # <<>> /\ pc # "target" /\ pc # "loop") =>
          env = Execs[Len(Execs)].env

\* The target call ran with its own fields right after a reverting creation
\* and a skipped system transaction, on a block whose header lacks the
\* optional fields.
C18_Witness ==
    /\ pc = "done"
    /\ TargetInBlock
    /\ args.tx_hash = 3
    /\ \E k \in 1..2 : SystemShaped(BlockTxs[k])
    /\ Len(Execs) = 2
    /\ Execs[1].env.tx.transact_to = None
    /\ Execs[1].env.tx.behav = "revert"
    /\ Execs[2].env.tx = TxFields(Unwrap(tx))
    /\ Execs[2].env.tx.transact_to # None
    /\ Execs[2].env.block.prevrandao = Some("zero")

\* The positions of the list executed as preceding transactions so far.
PriorIdx == {Execs[a].idx : a \in {b \in 1..Len(Execs) : Execs[b].phase = "prior"}}

\* The positions the replay has to execute before the target: the
\* non-system transactions below the target's position, all non-system
\* transactions of the list when the target hash does not occur in it.
DueIdx ==
    {k \in 1..Len(BlockTxs) :
        /\ ~SystemShaped(BlockTxs[k])
        /\ TargetInBlock => k < args.tx_hash}

\* C19: only transactions due before the target are ever executed by the
\* loop, so none at or after the target's position; the loop leaves the
\* target's own record unexecuted, and once the target is executed in a run
\* that replays, the preceding transactions executed are exactly the due
\* ones and nothing is executed after the target.
C19_NothingAfterTarget ==
    /\ PriorIdx \subseteq DueIdx
    /\ \A a \in 1..Len(Execs) :
          Execs[a].phase = "prior" =>
            /\ Execs[a].env.tx.data # args.tx_hash
            /\ TargetInBlock => Execs[a].idx < args.tx_hash
    /\ \A a \in 1..Len(Execs) :
          Execs[a].phase = "target" => a = Len(Execs)
    /\ (TargetExecuted /\ ~args.quick) => PriorIdx = DueIdx
    /\ (pc = "target" /\ ~args.quick /\ block # None) => PriorIdx = DueIdx
    /\ (pc = "target" /\ TargetInBlock /\ ~args.quick) => index = args.tx_hash

\* A finished run whose target is the second of three transactions: the
\* first was replayed, the third never executed.
C19_Witness ==
    /\ pc = "done"
    /\ ~args.quick
    /\ Len(BlockTxs) = 3
    /\ args.tx_hash = 2
    /\ PriorIdx = {1}
    /\ Len(Execs) = 2
    /\ Execs[2].phase = "target"

\* The provider answered the block request with no block: the run went past
\* the fetch and holds none.
BlockAbsent ==
    /\ block = None
    /\ fork_block_number # None \/ pc = "fork"
           \/ \E e \in err : e.kind = "ForkFailure"

\* C20: when the provider returns no block the run goes on: it never ends
\* with a block error, the loop is never entered even with quick=false and
\* no preceding transaction is executed; the block fields stay the
\* template's except for the number, which is the resolved one; the version
\* stays the caller's; and the target is the only execution, made once on
\* the parent state carrying the requested overrides.
C20_AbsentBlock ==
    BlockAbsent =>
      /\ \A e \in err : e.kind \in {"ForkFailure", "TweakLoadError",
                                     "TweakBuildError", "TweakInstallError",
                                     "FatalExecutionError", "TraceError"}
      /\ pc # "loop" /\ txs = <<>> /\ index = 0
      /\ backend # None =>
            /\ env.block = [TemplateBlock EXCEPT !.number = tx_block_number]
            /\ evm_version = args.evm_version
      /\ Len(Execs) <= 1
      /\ \A a \in 1..Len(Execs) :
            /\ Execs[a].phase = "target"
            /\ Execs[a].env.tx.data = args.tx_hash
            /\ Execs[a].on = [fork |-> ForkNumber,
                              overrides |-> ExpectedOverrides, state |-> <<>>]
            /\ Execs[a].env.block.timestamp = "template"
            /\ Execs[a].env.spec_id = args.evm_version
      /\ PastTarget => Len(Execs) = 1 /\ result # None
      /\ (\E e \in err : e.kind = "FatalExecutionError") => Len(Execs) = 1

\* A finished run with quick=false whose block was absent: one execution,
\* the target, under the template's block fields and the resolved number.
C20_Witness ==
    /\ pc = "done"
    /\ ~args.quick
    /\ block = None
    /\ Len(Execs) = 1
    /\ Execs[1].phase = "target"
    /\ Execs[1].env.block.number = tx_block_number
    /\ Execs[1].env.block.coinbase = "template"
    /\ result # None

====
